---------------------------- MODULE Spec2Model ----------------------------
(***************************************************************************)
(* A model of redash_pandas/redash.py: the Redash client's query call      *)
(* (submission, job-status poll loop, result fetch), and the two batching  *)
(* strategies built on it, safe_query and period_limited_query.            *)
(*                                                                         *)
(* One behaviour follows one top-level call (op) from its arguments to its *)
(* return value or raised error.  Time is counted in whole seconds.        *)
(***************************************************************************)
EXTENDS Integers, Sequences, FiniteSets, TLC

(***************************************************************************)
(* Bounds of the model.                                                    *)
(***************************************************************************)
MaxTimeout == 3    \* largest query_timeout (seconds) a caller passes
MaxLatency == 2    \* longest time (seconds) one job-status GET takes
MaxRows == 5       \* most rows the paginated data source holds
MaxLimit == 2      \* largest page size (limit) a caller passes
MaxIter == 4       \* largest max_iter a caller passes
MaxDay == 14       \* last day of the calendar window of the date arguments
MaxMultiple == 2   \* largest interval_multiple a caller passes
MaxPolls == 1      \* most job-status GETs of one of two concurrent calls
MaxThreads == 3    \* most animation threads one ProgressIndicator creates

(***************************************************************************)
(* JobStatus (IntEnum) and the HTTP status the code singles out.           *)
(***************************************************************************)
PENDING == 1
STARTED == 2
SUCCESS == 3
FAILURE == 4
CANCELLED == 5
http_bad_gateway == 502

\* Status values a server can send: the five of JobStatus and one outside it.
StatusValues == PENDING .. (CANCELLED + 1)

\* The tuple the poll loop tests membership in: (PENDING, STARTED).
NonTerminal == {PENDING, STARTED}

(***************************************************************************)
(* State.                                                                  *)
(***************************************************************************)
VARIABLES
    op,             \* the top-level method called
    pc,             \* position of the call
    outcome,        \* "none" while running, else what the call returned/raised
    http,           \* the HTTP exchanges so far, in order
    \* ---- Redash.query
    query_timeout,  \* argument query_timeout (seconds)
    res,            \* self.res: the last HTTP response stored on the instance
    job,            \* query's local `job` (from the submission response)
    job_status,     \* query's local `job_status`
    w_job_status,   \* _wait_for_job_status's local `job_status`
    w_job,          \* _wait_for_job_status's local `job`
    elapsed,        \* time.time() - query_wait_start_time
    progress,       \* self.progress: [running, thread]
    df_rows,        \* rows of the dataframe returned by query (NoDf: none)
    \* ---- shared by safe_query and period_limited_query
    caller_params,  \* the mapping object the caller passed (NoParams: None or {})
    params,         \* the local `params`: the caller's object itself when that
                    \* is a non-empty mapping, else a fresh {}
    calls,          \* the params of each call to self.query, in call order
    dfs,            \* the local list `dfs`: the non-empty pages, in order
    final_df,       \* the rows of the dataframe returned
    data,           \* the rows the remote query selects from
    \* ---- Redash.safe_query
    limit,          \* argument limit
    max_iter,       \* argument max_iter
    endless,        \* TRUE: the source answers every page with `limit` rows
    batch_ix,       \* loop variable
    \* ---- Redash.period_limited_query
    start_date,     \* argument start_date (a day number; NoDate: "")
    end_date,       \* argument end_date
    interval,       \* argument interval: [name, freq_code]
    interval_multiple, \* argument interval_multiple
    start_dates,    \* local start_dates (a DatetimeIndex)
    end_dates,      \* local end_dates
    range_ix,       \* position of the zip loop
    \* ---- Redash.__init__
    credentials,    \* argument credentials: [given, exists, endpoint, apikey]
    arg_endpoint,   \* argument endpoint
    arg_apikey,     \* argument apikey
    endpoint,       \* self.endpoint
    apikey,         \* self.apikey
    \* ---- two query calls running concurrently on one instance
    self_req,       \* self.req: the caller whose request URI it holds
    self_res,       \* self.res: the response it holds
    cpc,            \* position of each concurrent call
    polls,          \* job-status GETs each concurrent call has sent
    posted,         \* the URI each concurrent call POSTed to
    parsed,         \* the response each concurrent call last read
    \* ---- ProgressIndicator and its animation threads
    running,        \* self.running
    thread,         \* self.thread: the thread created last
    animate,        \* position of each animation thread in _animate
    ipc,            \* position of each caller of start() / stop()
    join_timed_out  \* the threads a join(timeout=0.1) gave up on

qvars == <<query_timeout, res, job, job_status, w_job_status, w_job,
           elapsed, progress, df_rows>>
bvars == <<caller_params, params, calls, dfs, final_df, data>>
svars == <<limit, max_iter, endless, batch_ix>>
pvars == <<start_date, end_date, interval, interval_multiple, start_dates,
           end_dates, range_ix>>
cvars == <<credentials, arg_endpoint, arg_apikey, endpoint, apikey>>
kvars == <<self_req, self_res, cpc, polls, posted, parsed>>
tvars == <<running, thread, animate, ipc, join_timed_out>>
xvars == <<cvars, kvars, tvars>>
seqvars == <<op, pc, outcome, http, qvars, bvars, svars, pvars, cvars>>
vars == <<op, pc, outcome, http, qvars, bvars, svars, pvars, xvars>>

NoDf == 0 - 1

NoJob == [id |-> 0, status |-> 0, query_result_id |-> 0]
NoRes == [kind |-> "none", status_code |-> 0]

\* One HTTP exchange as the transport sees it: the endpoint and the id in
\* the request's path, and what came back: an httpx exception, a 502, or a
\* JSON body (with whether it holds `message`, and the job status it holds).
Exchange(ep, id, answer, message, status) ==
    [ep |-> ep, id |-> id, answer |-> answer, message |-> message,
     status |-> status]

(***************************************************************************)
(* What the remote service (or the transport) can answer.                  *)
(***************************************************************************)
\* httpx outcomes of one request: an exception, or a response.
TransportFailures == {"TimeoutException", "RequestError"}

\* Bodies of the submission response: a top-level `message`, a `job`, both
\* or neither.
SubmitBodies ==
    [message : BOOLEAN, has_job : BOOLEAN, status : StatusValues,
     query_result_id : {0, 1}]

\* Bodies of a job-status response.
JobBodies == [status : StatusValues, query_result_id : {0, 2}]

\* Result payloads: well-formed with n rows, or malformed.
ResultBodies == [wellformed : BOOLEAN, rows : 0 .. 1]

(***************************************************************************)
(* ProgressIndicator.start / stop (the animation thread itself is not      *)
(* followed here: only the flag and whether a thread object exists).       *)
(***************************************************************************)
ProgressStart(p) ==
    IF p.running THEN p ELSE [running |-> TRUE, thread |-> "Thread"]

ProgressStop(p) == [p EXCEPT !.running = FALSE]

\* A wait left by an exception without the indicator being stopped.
StopOnRaise_Missing(p) == p

\* `try: self._wait_for_job_status(...) finally: self.progress.stop()` when
\* the wait is left by an exception.
StopOnRaise(p) == ProgressStop(p)


(***************************************************************************)
(* Conditions of Redash.query and Redash._wait_for_job_status.             *)
(***************************************************************************)
\* A loop that goes on polling after SUCCESS (only the failures end it).
LoopContinues_UntilFailure(s) == s \notin {FAILURE, CANCELLED}

\* `while job_status in (JobStatus.PENDING, JobStatus.STARTED)`
LoopContinues(s) == s \in NonTerminal

\* A wait-time test that allows one second too many.
WaitExceeded_OffByOne(query_wait_time, timeout) == query_wait_time > timeout + 1

\* `if query_wait_time > query_timeout`
WaitExceeded(query_wait_time, timeout) == query_wait_time > timeout

\* `if self.res.status_code == http_bad_gateway`
IsBadGateway(code) == code = http_bad_gateway

\* A test for `message` that a `job` in the body takes precedence over.
MessageInResult_OnlyWithoutJob(body) == body.message /\ ~body.has_job

\* `if "message" in result`
MessageInResult(body) == body.message

\* The status query tests after _wait_for_job_status has returned: its own
\* local job_status, which the poll loop (a callee with its own local of the
\* same name) never writes.
StatusAfterWait == job_status

\* The result identifier query reads for the result fetch: its own `job`.
ResultIdAfterWait == job.query_result_id

\* A result-fetch 502 answered with an empty dataframe.
FetchBadGateway_Empty == [outcome |-> "DataFrame", rows |-> 0]

\* What a result-fetch 502 leads to: `raise RuntimeError("Gateway error ...")`.
FetchBadGateway == [outcome |-> "GatewayError", rows |-> NoDf]

\* An except block that wraps the transport's error in a generic one.
Reraised_AsRuntimeError(f) == "RuntimeError"

\* `except httpx.TimeoutException: ... raise` / `except httpx.RequestError:
\* ... raise`: the error is logged and the same error raised again.
Reraised(f) == f

\* The call ends: `raise` (or `return`) with the given classification.
Finish(what) == outcome' = what /\ pc' = "done"

(***************************************************************************)
(* Redash.query, first step: build the request, POST it, read the job and  *)
(* enter the wait (redash.py 165-223).                                     *)
(***************************************************************************)
Submit ==
    /\ op = "query"
    /\ pc = "start"
    /\ UNCHANGED <<op, query_timeout, w_job, df_rows, bvars, svars, pvars, xvars>>
    /\ \/ \* the POST raises: logged and re-raised
          \E f \in TransportFailures :
            /\ http' = Append(http, Exchange("queries", 0, f, FALSE, 0))
            /\ Finish(Reraised(f))
            /\ UNCHANGED <<res, job, job_status, w_job_status, elapsed, progress>>
       \/ \E b \in SubmitBodies :
            /\ http' = Append(http, Exchange("queries", 0, "json", b.message,
                                             IF b.has_job THEN b.status ELSE 0))
            /\ res' = [kind |-> "json", status_code |-> 200]
            /\ IF MessageInResult(b)
               THEN /\ Finish("ConfigurationError")
                    /\ UNCHANGED <<job, job_status, w_job_status, elapsed, progress>>
               ELSE IF ~b.has_job
               THEN /\ Finish("KeyError")
                    /\ UNCHANGED <<job, job_status, w_job_status, elapsed, progress>>
               ELSE /\ job' = [id |-> 1, status |-> b.status,
                               query_result_id |-> b.query_result_id]
                    /\ job_status' = b.status
                    /\ elapsed' = 0
                    /\ IF b.status = CANCELLED
                       THEN /\ Finish("JobCancelled")
                            /\ UNCHANGED <<w_job_status, progress>>
                       ELSE IF b.status = FAILURE
                       THEN /\ Finish("JobFailed")
                            /\ UNCHANGED <<w_job_status, progress>>
                       ELSE \* progress.start(); _wait_for_job_status(...)
                            /\ outcome' = outcome
                            /\ w_job_status' = b.status
                            /\ IF LoopContinues(b.status)
                               THEN /\ progress' = ProgressStart(progress)
                                    /\ pc' = "wait"
                               ELSE \* the loop body never runs; finally: stop()
                                    /\ progress' = ProgressStop(ProgressStart(progress))
                                    /\ pc' = "fetch"

(***************************************************************************)
(* One iteration of the poll loop up to its sleep (redash.py 125-144): the *)
(* job-status GET, which takes lat seconds, the 502 test, the new status   *)
(* and the wait-time test; with the `finally: self.progress.stop()` of     *)
(* query (222-223) when the iteration leaves _wait_for_job_status.         *)
(***************************************************************************)
Poll ==
    /\ op = "query"
    /\ pc = "wait"
    /\ UNCHANGED <<op, query_timeout, job, job_status, df_rows, bvars, svars, pvars, xvars>>
    /\ \E lat \in 0 .. MaxLatency :
        /\ elapsed' = elapsed + lat
        /\ \/ \* the GET raises: logged and re-raised
              \E f \in TransportFailures :
                /\ http' = Append(http, Exchange("jobs", job.id, f, FALSE, 0))
                /\ Finish(Reraised(f))
                /\ progress' = StopOnRaise(progress)
                /\ UNCHANGED <<res, w_job, w_job_status>>
           \/ \* 502: warning, `return`
              /\ http' = Append(http, Exchange("jobs", job.id, "502", FALSE, 0))
              /\ res' = [kind |-> "http", status_code |-> http_bad_gateway]
              /\ IsBadGateway(res'.status_code)
              /\ progress' = ProgressStop(progress)
              /\ pc' = "fetch"
              /\ UNCHANGED <<outcome, w_job, w_job_status>>
           \/ \E b \in JobBodies :
                /\ http' = Append(http, Exchange("jobs", job.id, "json", FALSE,
                                                 b.status))
                /\ res' = [kind |-> "json", status_code |-> 200]
                /\ w_job' = [id |-> job.id, status |-> b.status,
                             query_result_id |-> b.query_result_id]
                /\ w_job_status' = b.status
                /\ IF WaitExceeded(elapsed', query_timeout)
                   THEN /\ Finish("JobTimeout")
                        /\ progress' = StopOnRaise(progress)
                   ELSE /\ pc' = "sleep"
                        /\ UNCHANGED <<outcome, progress>>

(***************************************************************************)
(* `time.sleep(1)` and the loop condition (redash.py 147, 125); when the   *)
(* loop ends, _wait_for_job_status returns and query stops the indicator.  *)
(***************************************************************************)
Sleep ==
    /\ op = "query"
    /\ pc = "sleep"
    /\ elapsed' = elapsed + 1
    /\ IF LoopContinues(w_job_status)
       THEN /\ pc' = "wait"
            /\ progress' = progress
       ELSE /\ pc' = "fetch"
            /\ progress' = ProgressStop(progress)
    /\ UNCHANGED <<op, outcome, http, query_timeout, res, job, job_status,
                   w_job, w_job_status, df_rows, bvars, svars, pvars, xvars>>

(***************************************************************************)
(* The rest of query after the wait (redash.py 225-268): the status tests, *)
(* the result-fetch GET and the conversion to a dataframe.                 *)
(***************************************************************************)
Fetch ==
    /\ op = "query"
    /\ pc = "fetch"
    /\ UNCHANGED <<op, query_timeout, job, job_status, w_job, w_job_status,
                   elapsed, progress, bvars, svars, pvars, xvars>>
    /\ IF StatusAfterWait = FAILURE
       THEN Finish("JobFailed") /\ UNCHANGED <<http, res, df_rows>>
       ELSE IF StatusAfterWait = CANCELLED
       THEN Finish("JobCancelled") /\ UNCHANGED <<http, res, df_rows>>
       ELSE
        \/ \E f \in TransportFailures :
             /\ http' = Append(http, Exchange("query_results", ResultIdAfterWait,
                                              f, FALSE, 0))
             /\ Finish(Reraised(f))
             /\ UNCHANGED <<res, df_rows>>
        \/ /\ http' = Append(http, Exchange("query_results", ResultIdAfterWait,
                                            "502", FALSE, 0))
           /\ res' = [kind |-> "http", status_code |-> http_bad_gateway]
           /\ Finish(FetchBadGateway.outcome)
           /\ df_rows' = FetchBadGateway.rows
        \/ \E b \in ResultBodies :
             /\ http' = Append(http, Exchange("query_results", ResultIdAfterWait,
                                              "json", FALSE, 0))
             /\ res' = [kind |-> "json", status_code |-> 200]
             /\ IF b.wellformed
                THEN Finish("DataFrame") /\ df_rows' = b.rows
                ELSE Finish("DataShapeError") /\ df_rows' = df_rows

(***************************************************************************)
(* Parameter mappings.  A mapping is a record over the keys the two        *)
(* batching methods write, and one key of the caller's own; Absent marks a *)
(* key the mapping does not hold.                                          *)
(***************************************************************************)
Absent == 0 - 1
NoParams == [offset_rows |-> Absent, limit_rows |-> Absent,
             start_date |-> Absent, end_date |-> Absent, other |-> Absent]

\* The mappings callers pass: None or {}, one with a key of their own, and
\* ones that already hold the keys the batching methods write.
CallerParams ==
    { NoParams,
      [NoParams EXCEPT !.other = 7],
      [NoParams EXCEPT !.offset_rows = 9, !.limit_rows = 9, !.other = 8],
      [NoParams EXCEPT !.start_date = 3, !.end_date = 4] }

\* `params = params or {}`: None and {} are falsy and give a fresh mapping;
\* any other mapping is used as it is (the same object).
ParamsOrEmpty(p) == p
IsCallersObject == caller_params # NoParams

\* The caller's mapping after the local `params` has become p.
CallerSees(p) == IF IsCallersObject THEN p ELSE caller_params

RECURSIVE Concat(_)
\* pd.concat(dfs, axis=0, ignore_index=True): the pages' rows, in list order.
Concat(pages) ==
    IF pages = <<>> THEN <<>> ELSE Head(pages) \o Concat(Tail(pages))

RECURSIVE SortedSeq(_)
\* The elements of a finite set of integers in increasing order.
SortedSeq(S) ==
    IF S = {} THEN <<>>
    ELSE LET m == CHOOSE x \in S : \A y \in S : x <= y
         IN  <<m>> \o SortedSeq(S \ {m})

Min(a, b) == IF a < b THEN a ELSE b
Max(a, b) == IF a > b THEN a ELSE b

(***************************************************************************)
(* Redash.safe_query (redash.py 270-319).  self.query is taken by its      *)
(* result: the page the remote query selects for the parameters sent, or   *)
(* an error raised by query, which safe_query does not catch.              *)
(***************************************************************************)
\* The page a query honouring offset_rows/limit_rows returns: rows are
\* numbered 1..N in the source's order.
SafePage(p) ==
    LET n == IF endless THEN p.limit_rows
             ELSE Max(0, Min(p.limit_rows, Cardinality(data) - p.offset_rows))
    IN  [i \in 1 .. n |-> p.offset_rows + i]

\* `start_ix = batch_ix * limit`
StartIx(ix, lim) == ix * lim

\* An update that keeps the values the caller supplied for the two keys.
SafeUpdate_KeepCaller(p, start_ix, lim) ==
    [p EXCEPT !.offset_rows = IF @ = Absent THEN start_ix ELSE @,
              !.limit_rows = IF @ = Absent THEN lim ELSE @]

\* `params.update({"offset_rows": start_ix, "limit_rows": limit})`
SafeUpdate(p, start_ix, lim) ==
    [p EXCEPT !.offset_rows = start_ix, !.limit_rows = lim]

\* A short-page test that also stops on a full page.
ShortPage_OrFull(n, lim) == n <= lim

\* `if len(partial_df) < limit: break`
ShortPage(n, lim) == n < lim

\* `for batch_ix in range(max_iter)`: is there a next iteration after ix?
RangeHasNext(ix, n) == ix + 1 < n

SafeBegin ==
    /\ op = "safe_query"
    /\ pc = "start"
    /\ params' = ParamsOrEmpty(caller_params)
    /\ dfs' = <<>>
    /\ batch_ix' = 0
    /\ pc' = IF RangeHasNext(0 - 1, max_iter) THEN "safe_loop" ELSE "safe_return"
    /\ UNCHANGED <<op, outcome, http, qvars, xvars, caller_params, calls, final_df,
                   data, limit, max_iter, endless, pvars>>

SafeIter ==
    /\ op = "safe_query"
    /\ pc = "safe_loop"
    /\ LET p2 == SafeUpdate(params, StartIx(batch_ix, limit), limit)
           partial_df == SafePage(p2)
       IN  /\ params' = p2
           /\ caller_params' = CallerSees(p2)
           /\ calls' = Append(calls, p2)
           /\ \/ \* self.query raises
                 /\ Finish("QueryError")
                 /\ UNCHANGED <<dfs, batch_ix>>
              \/ /\ outcome' = outcome
                 /\ IF partial_df = <<>>
                    THEN /\ pc' = "safe_return"
                         /\ UNCHANGED <<dfs, batch_ix>>
                    ELSE /\ dfs' = Append(dfs, partial_df)
                         /\ IF ShortPage(Len(partial_df), limit)
                            THEN /\ pc' = "safe_return"
                                 /\ batch_ix' = batch_ix
                            ELSE IF RangeHasNext(batch_ix, max_iter)
                            THEN /\ pc' = "safe_loop"
                                 /\ batch_ix' = batch_ix + 1
                            ELSE /\ pc' = "safe_return"
                                 /\ batch_ix' = batch_ix
    /\ UNCHANGED <<op, http, qvars, xvars, final_df, data, limit, max_iter, endless,
                   pvars>>

SafeReturn ==
    /\ op = "safe_query"
    /\ pc = "safe_return"
    /\ final_df' = Concat(dfs)
    /\ Finish("DataFrame")
    /\ UNCHANGED <<op, http, qvars, xvars, caller_params, params, calls, dfs, data,
                   svars, pvars>>


(***************************************************************************)
(* Redash.period_limited_query (redash.py 321-410).                        *)
(*                                                                         *)
(* Dates.  A date string 'YYYY-MM-DD' is a day number of a calendar window *)
(* that starts on Monday 2023-12-25 (day 0); "" is NoDate.  A Timestamp is *)
(* a number of hours since the window's start.                             *)
(***************************************************************************)
NoDate == 0 - 1
Days == 0 .. MaxDay

\* pd.to_datetime of a date string: midnight of that day.
ToDatetime(d) == d * 24

\* Timestamp.strftime("%Y-%m-%d"): the day, the time of day dropped.
Strftime(ts) == ts \div 24

\* The interval names the method accepts.
IntervalNames == {"day", "week", "month", "quarter", "year"}

\* The interval arguments: plain strings (the declared type, `interval: str`,
\* which have no attribute freq_code) and string-valued objects that carry a
\* pandas frequency code in freq_code (the docstring's `Interval.month`).
Intervals ==
    { [name |-> n, freq_code |-> "none"] : n \in IntervalNames \cup {"", "hour"} }
    \cup { [name |-> "day", freq_code |-> "D"],
           [name |-> "week", freq_code |-> "W"],
           [name |-> "month", freq_code |-> "MS"],
           [name |-> "quarter", freq_code |-> "QS"],
           [name |-> "year", freq_code |-> "YS"] }

\* The days of the window that lie on the calendar boundary of a frequency
\* code: every day; Sundays (2023-12-31 is day 6); the first day of a month
\* (2024-01-01 is day 7, 2024-02-01 day 38), of a quarter, of a year.
OnOffset(d, code) ==
    CASE code = "D" -> TRUE
      [] code = "W" -> d % 7 = 6
      [] code = "MS" -> d \in {7, 38}
      [] code = "QS" -> d = 7
      [] code = "YS" -> d = 7
      [] OTHER -> FALSE

\* pd.date_range(start=start_date, end=end_date, freq=code): the boundary
\* Timestamps from start to end, both included, in increasing order.
DateRange(start, end, code) ==
    LET S == { ToDatetime(d) : d \in { x \in start .. end : OnOffset(x, code) } }
    IN  SortedSeq(S)

\* seq[::m]
Stride(seq, m) ==
    [i \in 1 .. ((Len(seq) + m - 1) \div m) |-> seq[(i - 1) * m + 1]]

\* The start_dates the method builds (redash.py 372-385).
StartDates(start, end, code, m) ==
    LET generated == DateRange(start, end, code)
        user_input_start_date == ToDatetime(start)
    IN  IF generated = <<>>
        THEN <<user_input_start_date>>
        ELSE IF generated[1] # user_input_start_date
        THEN <<user_input_start_date>> \o Stride(generated, m)
        ELSE Stride(generated, m)

\* The end_dates the method builds from the final start_dates.
EndDates(sds, start, end, code) ==
    IF DateRange(start, end, code) = <<>>
    THEN <<ToDatetime(end)>>
    ELSE Tail(sds) \o <<ToDatetime(end)>>

\* The error the argument checks raise ("none": the arguments pass).
ArgumentError ==
    IF start_date = NoDate \/ end_date = NoDate \/ interval.name = ""
       \/ ~(interval_multiple > 0)
    THEN "AssertionError"
    ELSE IF interval.name \notin IntervalNames
    THEN "ValueError"
    ELSE "none"

\* `interval.freq_code` (redash.py 372): a plain str has no such attribute.
HasFreqCode(iv) == iv.freq_code # "none"

\* The rows the docstring's query selects for the parameters sent: those
\* between start_date and end_date - 1 second.
PeriodPage(p) ==
    SortedSeq({ d \in data : p.start_date <= d /\ d < p.end_date })

\* `params.update({"start_date": ..., "end_date": ...})`
PeriodUpdate(p, s, e) ==
    [p EXCEPT !.start_date = Strftime(s), !.end_date = Strftime(e)]

\* zip(start_dates, end_dates, strict=False): the number of pairs.
ZipLen(a, b) == Min(Len(a), Len(b))

PeriodBegin ==
    /\ op = "period_limited_query"
    /\ pc = "start"
    /\ UNCHANGED <<op, http, qvars, xvars, caller_params, calls, final_df, data,
                   svars, start_date, end_date, interval, interval_multiple>>
    /\ IF ArgumentError # "none"
       THEN /\ Finish(ArgumentError)
            /\ UNCHANGED <<params, dfs, start_dates, end_dates, range_ix>>
       ELSE IF ~HasFreqCode(interval)
       THEN /\ Finish("AttributeError")
            /\ UNCHANGED <<params, dfs, start_dates, end_dates, range_ix>>
       ELSE LET sds == StartDates(start_date, end_date, interval.freq_code,
                                  interval_multiple)
            IN  /\ start_dates' = sds
                /\ end_dates' = EndDates(sds, start_date, end_date,
                                         interval.freq_code)
                /\ dfs' = <<>>
                /\ params' = ParamsOrEmpty(caller_params)
                /\ range_ix' = 1
                /\ outcome' = outcome
                /\ pc' = IF ZipLen(start_dates', end_dates') >= 1
                         THEN "period_loop" ELSE "period_return"

PeriodIter ==
    /\ op = "period_limited_query"
    /\ pc = "period_loop"
    /\ LET p2 == PeriodUpdate(params, start_dates[range_ix], end_dates[range_ix])
           df == PeriodPage(p2)
       IN  /\ params' = p2
           /\ caller_params' = CallerSees(p2)
           /\ calls' = Append(calls, p2)
           /\ \/ \* self.query raises
                 /\ Finish("QueryError")
                 /\ UNCHANGED <<dfs, range_ix>>
              \/ /\ outcome' = outcome
                 /\ dfs' = IF df # <<>> THEN Append(dfs, df) ELSE dfs
                 /\ range_ix' = range_ix + 1
                 /\ pc' = IF range_ix < ZipLen(start_dates, end_dates)
                          THEN "period_loop" ELSE "period_return"
    /\ UNCHANGED <<op, http, qvars, xvars, final_df, data, svars, start_date,
                   end_date, interval, interval_multiple, start_dates,
                   end_dates>>

PeriodReturn ==
    /\ op = "period_limited_query"
    /\ pc = "period_return"
    /\ final_df' = Concat(dfs)
    /\ Finish("DataFrame")
    /\ UNCHANGED <<op, http, qvars, xvars, caller_params, params, calls, dfs, data,
                   svars, pvars>>

(***************************************************************************)
(* Redash.__init__ (redash.py 61-119).  A string is "" or a value; "None"  *)
(* stands for the None that dict.get gives for a key the file lacks.       *)
(***************************************************************************)
NoCredentials ==
    [given |-> FALSE, exists |-> FALSE, endpoint |-> "None", apikey |-> "None"]

\* The credentials arguments: none (""), the path of a file that does not
\* exist, or the path of a JSON file that holds, or lacks, each of the keys.
CredentialsArgs ==
    { NoCredentials,
      [given |-> TRUE, exists |-> FALSE, endpoint |-> "None", apikey |-> "None"] }
    \cup [given : {TRUE}, exists : {TRUE},
          endpoint : {"None", "", "file_endpoint"},
          apikey : {"None", "", "file_apikey"}]

\* Python truthiness of an optional string.
Falsy(v) == v \in {"None", ""}

\* A test that fails only when both values are missing.
MissingCredential_Both(ak, ep) == Falsy(ak) /\ Falsy(ep)

\* `if not self.apikey or not self.endpoint`
MissingCredential(ak, ep) == Falsy(ak) \/ Falsy(ep)

\* The values __init__ stores: the file's when `credentials` is given (the
\* explicit arguments are not read then), else the explicit arguments.
LoadedEndpoint ==
    IF credentials.given THEN credentials.endpoint ELSE arg_endpoint
LoadedApikey ==
    IF credentials.given THEN credentials.apikey ELSE arg_apikey

Construct ==
    /\ op = "construct"
    /\ pc = "start"
    /\ UNCHANGED <<op, http, qvars, bvars, svars, pvars, credentials,
                   arg_endpoint, arg_apikey, kvars, tvars>>
    /\ IF credentials.given /\ ~credentials.exists
       THEN \* Path(credentials).open raises
            /\ Finish("FileNotFoundError")
            /\ UNCHANGED <<endpoint, apikey>>
       ELSE /\ endpoint' = LoadedEndpoint
            /\ apikey' = LoadedApikey
            /\ IF MissingCredential(apikey', endpoint')
               THEN Finish("ValueError")
               ELSE Finish("Redash")

(***************************************************************************)
(* The specification: one call of the constructor or of one of the three   *)
(* methods, its arguments drawn from the bounded sets.                     *)
(***************************************************************************)
(***************************************************************************)
(* Two query calls on one Redash instance, each in its own thread.  The    *)
(* steps are the reads and writes of the instance fields self.req and      *)
(* self.res, and the HTTP calls between them.                              *)
(***************************************************************************)
Callers == 1 .. 2
NoCaller == 0
NoResponse == [owner |-> NoCaller, ep |-> "None"]
NothingParsed == [owner |-> NoCaller, ep |-> "None", want |-> "None"]

\* The endpoint of the request a call is waiting on / reading the answer of.
Awaited(at) ==
    CASE at \in {"post_sent", "post_json"} -> "queries"
      [] at \in {"job_sent", "job_code", "job_json"} -> "jobs"
      [] at \in {"fetch_sent", "fetch_code", "fetch_json"} -> "query_results"

\* A step of one of the two calls: nothing else of the instance moves.
ConcCall ==
    /\ op = "concurrent_query"
    /\ UNCHANGED <<seqvars, tvars>>

\* `self.req = self._build_query_uri(query_id)`
ConcSetReq(c) ==
    /\ ConcCall
    /\ cpc[c] = "start"
    /\ self_req' = c
    /\ cpc' = [cpc EXCEPT ![c] = "post"]
    /\ UNCHANGED <<self_res, polls, posted, parsed>>

\* `self.client.post(self.req, ...)`: the argument is read from the
\* instance, the request goes out.
ConcPost(c) ==
    /\ ConcCall
    /\ cpc[c] = "post"
    /\ posted' = [posted EXCEPT ![c] = self_req]
    /\ cpc' = [cpc EXCEPT ![c] = "post_sent"]
    /\ UNCHANGED <<self_req, self_res, polls, parsed>>

\* `self.client.get(job_status_uri, ...)` / `self.client.get(f".../api/
\* query_results/{query_result_id}...")`: the URI is a local of the call.
ConcGet(c) ==
    /\ ConcCall
    /\ \/ /\ cpc[c] = "job_get"
          /\ polls[c] < MaxPolls
          /\ polls' = [polls EXCEPT ![c] = @ + 1]
          /\ cpc' = [cpc EXCEPT ![c] = "job_sent"]
       \/ /\ cpc[c] = "fetch_get"
          /\ polls' = polls
          /\ cpc' = [cpc EXCEPT ![c] = "fetch_sent"]
    /\ UNCHANGED <<self_req, self_res, posted, parsed>>

\* `self.res = <the response>`: the store that follows the HTTP call.
ConcStoreRes(c) ==
    /\ ConcCall
    /\ cpc[c] \in {"post_sent", "job_sent", "fetch_sent"}
    /\ self_res' = [owner |-> c, ep |-> Awaited(cpc[c])]
    /\ cpc' = [cpc EXCEPT ![c] =
                 CASE cpc[c] = "post_sent" -> "post_json"
                   [] cpc[c] = "job_sent" -> "job_code"
                   [] cpc[c] = "fetch_sent" -> "fetch_code"]
    /\ UNCHANGED <<self_req, polls, posted, parsed>>

\* The HTTP call raises instead: logged and re-raised, self.res not written.
ConcRaise(c) ==
    /\ ConcCall
    /\ cpc[c] \in {"post_sent", "job_sent", "fetch_sent"}
    /\ cpc' = [cpc EXCEPT ![c] = "done"]
    /\ UNCHANGED <<self_req, self_res, polls, posted, parsed>>

\* Where a call goes after reading self.res at `at`; the content of the
\* response decides between the alternatives.
AfterRead(c, at) ==
    CASE at = "post_json" -> {"done", "job_get", "fetch_get"}
      [] at = "job_code" -> {"fetch_get", "job_json"}
      [] at = "job_json" ->
            IF polls[c] < MaxPolls THEN {"done", "job_get", "fetch_get"}
            ELSE {"done", "fetch_get"}
      [] at = "fetch_code" -> {"done", "fetch_json"}
      [] at = "fetch_json" -> {"done"}

\* `self.res.json()` / `self.res.status_code`: the call reads the instance
\* field again and acts on what it holds.
ConcReadRes(c) ==
    /\ ConcCall
    /\ cpc[c] \in {"post_json", "job_code", "job_json", "fetch_code", "fetch_json"}
    /\ parsed' = [parsed EXCEPT ![c] =
                    [owner |-> self_res.owner, ep |-> self_res.ep,
                     want |-> Awaited(cpc[c])]]
    /\ \E to \in AfterRead(c, cpc[c]) : cpc' = [cpc EXCEPT ![c] = to]
    /\ UNCHANGED <<self_req, self_res, polls, posted>>

\* No concurrent calls: the fields as __init__ leaves them.
NoConcurrentCalls ==
    /\ self_req = NoCaller
    /\ self_res = NoResponse
    /\ cpc = [c \in Callers |-> "idle"]
    /\ polls = [c \in Callers |-> 0]
    /\ posted = [c \in Callers |-> NoCaller]
    /\ parsed = [c \in Callers |-> NothingParsed]

(***************************************************************************)
(* ProgressIndicator: start() and stop() as query calls them around the    *)
(* poll loop, and the threads running _animate.                            *)
(***************************************************************************)
Threads == 1 .. MaxThreads
NoThread == 0
Unborn == {t \in Threads : animate[t] = "unborn"}

\* A step of start(), stop() or _animate: nothing else of the instance moves.
IndicatorCall ==
    /\ op = "progress"
    /\ UNCHANGED <<seqvars, kvars>>

\* start(): `if self.running: return`; either way query then reaches the
\* `finally: self.progress.stop()`.
StartTest(c) ==
    /\ IndicatorCall
    /\ ipc[c] = "start"
    /\ ipc' = [ipc EXCEPT ![c] = IF running THEN "stop" ELSE "set"]
    /\ UNCHANGED <<running, thread, animate, join_timed_out>>

\* start(): `self.running = True`
StartSet(c) ==
    /\ IndicatorCall
    /\ ipc[c] = "set"
    /\ running' = TRUE
    /\ ipc' = [ipc EXCEPT ![c] = "spawn"]
    /\ UNCHANGED <<thread, animate, join_timed_out>>

\* start(): `self.thread = threading.Thread(...); self.thread.start()`
StartThread(c) ==
    /\ IndicatorCall
    /\ ipc[c] = "spawn"
    /\ Unborn # {}
    /\ LET t == CHOOSE u \in Unborn : \A v \in Unborn : u <= v IN
         /\ thread' = t
         /\ animate' = [animate EXCEPT ![t] = "test"]
    /\ ipc' = [ipc EXCEPT ![c] = "stop"]
    /\ UNCHANGED <<running, join_timed_out>>

\* stop(): `self.running = False`, then `if self.thread:`
StopClear(c) ==
    /\ IndicatorCall
    /\ ipc[c] = "stop"
    /\ running' = FALSE
    /\ ipc' = [ipc EXCEPT ![c] = IF thread # NoThread THEN "join" ELSE "start"]
    /\ UNCHANGED <<thread, animate, join_timed_out>>

\* stop(): `self.thread.join(timeout=0.1)` returns, because the thread has
\* ended or because the 0.1 s are over; nothing looks at which.
StopJoin(c) ==
    /\ IndicatorCall
    /\ ipc[c] = "join"
    /\ join_timed_out' =
         IF animate[thread] = "exited" THEN join_timed_out
         ELSE join_timed_out \cup {thread}
    /\ ipc' = [ipc EXCEPT ![c] = "start"]
    /\ UNCHANGED <<running, thread, animate>>

\* _animate: `while self.running:`
AnimateTest(t) ==
    /\ IndicatorCall
    /\ animate[t] = "test"
    /\ animate' = [animate EXCEPT ![t] = IF running THEN "body" ELSE "exited"]
    /\ UNCHANGED <<running, thread, ipc, join_timed_out>>

\* _animate: the loop body, print and `time.sleep(self.sleep_interval)`
AnimateBody(t) ==
    /\ IndicatorCall
    /\ animate[t] = "body"
    /\ animate' = [animate EXCEPT ![t] = "test"]
    /\ UNCHANGED <<running, thread, ipc, join_timed_out>>

\* ProgressIndicator.__init__, and nobody calling start() or stop().
NoThreads ==
    /\ running = FALSE
    /\ thread = NoThread
    /\ animate = [t \in Threads |-> "unborn"]
    /\ ipc = [c \in Callers |-> "idle"]
    /\ join_timed_out = {}

InitCommon ==
    /\ pc = "start"
    /\ outcome = "none"
    /\ http = <<>>
    /\ res = NoRes
    /\ job = NoJob
    /\ job_status = 0
    /\ w_job_status = 0
    /\ w_job = NoJob
    /\ elapsed = 0
    /\ progress = [running |-> FALSE, thread |-> "None"]
    /\ df_rows = NoDf
    /\ params = NoParams
    /\ calls = <<>>
    /\ dfs = <<>>
    /\ final_df = <<>>
    /\ batch_ix = 0
    /\ start_dates = <<>>
    /\ end_dates = <<>>
    /\ range_ix = 0

\* The instance the three methods are called on was constructed.
InitConstructed ==
    /\ credentials = NoCredentials
    /\ arg_endpoint = "arg_endpoint"
    /\ arg_apikey = "arg_apikey"
    /\ endpoint = "arg_endpoint"
    /\ apikey = "arg_apikey"

\* The arguments of the two batching methods, for the other calls.
NoBatchArguments ==
    /\ caller_params = NoParams
    /\ data = {}
    /\ limit = 0 /\ max_iter = 0 /\ endless = FALSE
    /\ start_date = NoDate /\ end_date = NoDate
    /\ interval = [name |-> "", freq_code |-> "none"]
    /\ interval_multiple = 0

InitConstruct ==
    /\ op = "construct"
    /\ query_timeout = 0
    /\ NoBatchArguments
    /\ credentials \in CredentialsArgs
    /\ arg_endpoint \in {"", "arg_endpoint"}
    /\ arg_apikey \in {"", "arg_apikey"}
    /\ endpoint = "None"
    /\ apikey = "None"

InitQuery ==
    /\ InitConstructed
    /\ op = "query"
    /\ query_timeout \in 1 .. MaxTimeout
    /\ caller_params = NoParams
    /\ data = {}
    /\ limit = 0 /\ max_iter = 0 /\ endless = FALSE
    /\ start_date = NoDate /\ end_date = NoDate
    /\ interval = [name |-> "", freq_code |-> "none"]
    /\ interval_multiple = 0

InitSafe ==
    /\ InitConstructed
    /\ op = "safe_query"
    /\ query_timeout = 0
    /\ caller_params \in CallerParams
    /\ \E n \in 0 .. MaxRows : data = 1 .. n
    /\ limit \in 1 .. MaxLimit
    /\ max_iter \in 0 .. MaxIter
    /\ endless \in BOOLEAN
    /\ start_date = NoDate /\ end_date = NoDate
    /\ interval = [name |-> "", freq_code |-> "none"]
    /\ interval_multiple = 0

InitPeriod ==
    /\ InitConstructed
    /\ op = "period_limited_query"
    /\ query_timeout = 0
    /\ caller_params \in CallerParams
    /\ data \in {{}, Days}
    /\ limit = 0 /\ max_iter = 0 /\ endless = FALSE
    /\ start_date \in Days \cup {NoDate}
    /\ end_date \in Days \cup {NoDate}
    /\ interval \in Intervals
    /\ interval_multiple \in 0 .. MaxMultiple

Init ==
    /\ InitCommon
    /\ NoConcurrentCalls
    /\ NoThreads
    /\ (InitConstruct \/ InitQuery \/ InitSafe \/ InitPeriod)

Next ==
    \/ Construct
    \/ Submit
    \/ Poll
    \/ Sleep
    \/ Fetch
    \/ SafeBegin
    \/ SafeIter
    \/ SafeReturn
    \/ PeriodBegin
    \/ PeriodIter
    \/ PeriodReturn

Spec == Init /\ [][Next]_vars

\* Two threads call query on one constructed instance.
InitConc ==
    /\ InitCommon
    /\ InitConstructed
    /\ NoBatchArguments
    /\ NoThreads
    /\ op = "concurrent_query"
    /\ query_timeout = 0
    /\ self_req = NoCaller
    /\ self_res = NoResponse
    /\ cpc = [c \in Callers |-> "start"]
    /\ polls = [c \in Callers |-> 0]
    /\ posted = [c \in Callers |-> NoCaller]
    /\ parsed = [c \in Callers |-> NothingParsed]

NextConc ==
    \/ \E c \in Callers : ConcSetReq(c)
    \/ \E c \in Callers : ConcPost(c)
    \/ \E c \in Callers : ConcGet(c)
    \/ \E c \in Callers : ConcStoreRes(c)
    \/ \E c \in Callers : ConcRaise(c)
    \/ \E c \in Callers : ConcReadRes(c)

SpecConc == InitConc /\ [][NextConc]_vars

\* One ProgressIndicator; the callers are query calls, one after another in
\* each of two threads, each calling start() and then stop().
InitProgress ==
    /\ InitCommon
    /\ InitConstructed
    /\ NoBatchArguments
    /\ NoConcurrentCalls
    /\ op = "progress"
    /\ query_timeout = 0
    /\ running = FALSE
    /\ thread = NoThread
    /\ animate = [t \in Threads |-> "unborn"]
    /\ ipc = [c \in Callers |-> "start"]
    /\ join_timed_out = {}

NextProgress ==
    \/ \E c \in Callers : StartTest(c)
    \/ \E c \in Callers : StartSet(c)
    \/ \E c \in Callers : StartThread(c)
    \/ \E c \in Callers : StopClear(c)
    \/ \E c \in Callers : StopJoin(c)
    \/ \E t \in Threads : AnimateTest(t)
    \/ \E t \in Threads : AnimateBody(t)

SpecProgress == InitProgress /\ [][NextProgress]_vars

(***************************************************************************)
(* Properties.  Views of the exchange log first.                           *)
(***************************************************************************)
IsJobGet(e) == e.ep = "jobs"
IsResultGet(e) == e.ep = "query_results"
JobGets == SelectSeq(http, IsJobGet)
ResultGets == SelectSeq(http, IsResultGet)
Last(seq) == seq[Len(seq)]
Terminal == {SUCCESS, FAILURE, CANCELLED}

\* The submission reported PENDING or STARTED and the last job-status
\* response so far reported status s.
PolledStatus(s) ==
    /\ op = "query"
    /\ job_status \in NonTerminal
    /\ JobGets # <<>>
    /\ Last(JobGets).answer = "json"
    /\ Last(JobGets).status = s

\* C1: when the submission reports PENDING or STARTED and a later job-status
\* response reports FAILURE or CANCELLED, the call ends by raising job-failed
\* (FAILURE) or job-cancelled (CANCELLED) and never issues a GET to the
\* query_results endpoint.  (Stated for the runs in which that response came
\* within the job-wait timeout.)
C1_PollFailureRaises ==
    \A s \in {FAILURE, CANCELLED} :
        (PolledStatus(s) /\ outcome # "JobTimeout") =>
            /\ ResultGets = <<>>
            /\ pc = "done" =>
                 outcome = (IF s = FAILURE THEN "JobFailed" ELSE "JobCancelled")

\* C2 as claimed: once the elapsed wait time has exceeded query_timeout, every
\* job-status response until then having reported PENDING or STARTED (the
\* call is still in its poll loop), the call fails with the job-wait timeout
\* error; and once that error is raised no HTTP request follows.
C2_TimeoutAlwaysRaised ==
    [][/\ (op = "query" /\ pc = "wait" /\ elapsed' > query_timeout)
          => (outcome' = "JobTimeout" /\ pc' = "done")
       /\ outcome = "JobTimeout" => http' = http]_vars

\* C2, amended: when the job-status GET that ends once the elapsed wait time
\* has exceeded query_timeout is answered with a job body (no transport
\* error, no request timeout, no 502), the call fails with the job-wait
\* timeout error; and once that error is raised no HTTP request follows.
C2_TimeoutRaisedOnJobResponse ==
    [][/\ (op = "query" /\ pc = "wait" /\ elapsed' > query_timeout
             /\ Last(http').answer = "json")
          => (outcome' = "JobTimeout" /\ pc' = "done")
       /\ outcome = "JobTimeout" => http' = http]_vars

\* C2's case: the call has failed with the job-wait timeout after at least
\* two job-status GETs, all answered PENDING or STARTED.
C2_Witness ==
    /\ op = "query"
    /\ outcome = "JobTimeout"
    /\ Len(JobGets) >= 2
    /\ \A i \in 1 .. Len(JobGets) : JobGets[i].status \in NonTerminal
    /\ elapsed > query_timeout

\* The script so far holds only job bodies with a JobStatus value, and the
\* wait has not timed out.
CleanScript ==
    /\ op = "query"
    /\ job_status \in NonTerminal
    /\ outcome # "JobTimeout"
    /\ \A i \in 1 .. Len(JobGets) :
         JobGets[i].answer = "json" /\ JobGets[i].status \in NonTerminal \cup Terminal

NonTerminalSeen ==
    1 + Len(SelectSeq(JobGets, LAMBDA e : e.status \in NonTerminal))

\* C3: for a script of k >= 1 non-terminal statuses (the first one the
\* submission's) followed by a terminal status, without timeout or transport
\* error, the poll loop issues exactly k job-status GETs: no job-status GET
\* follows a response with a terminal status, and the loop ends only on one.
C3_OneGetPerNonTerminal ==
    CleanScript =>
        /\ \A i \in 1 .. Len(JobGets) - 1 : JobGets[i].status \in NonTerminal
        /\ pc \in {"fetch", "done"} =>
             /\ JobGets # <<>>
             /\ Last(JobGets).status \in Terminal
             /\ Len(JobGets) = NonTerminalSeen

\* C3's case: PENDING (submission), STARTED, STARTED, then SUCCESS: three
\* GETs, and the loop is over.
C3_Witness ==
    /\ CleanScript
    /\ pc = "fetch"
    /\ Len(JobGets) = 3
    /\ NonTerminalSeen = 3
    /\ Last(JobGets).status = SUCCESS

\* The result-fetch GET was answered with HTTP 502.
FetchGot502 ==
    /\ op = "query"
    /\ ResultGets # <<>>
    /\ Last(ResultGets).answer = "502"

C5_MessageIsConfigurationError ==
    (op = "query" /\ http # <<>> /\ http[1].answer = "json" /\ http[1].message) =>
        /\ pc = "done"
        /\ outcome = "ConfigurationError"
        /\ job = NoJob
        /\ Len(http) = 1
        /\ progress = [running |-> FALSE, thread |-> "None"]

\* C5's case: the body held both `message` and a job in status SUCCESS.
C5_Witness ==
    /\ op = "query"
    /\ http # <<>>
    /\ http[1].message
    /\ http[1].status = SUCCESS
    /\ pc = "done"

\* The number of rows of the paginated source.
SourceRows == Cardinality(data)

\* The i-th call to query (1-based) carried offset (i-1)*limit and the limit.
CallsCarryOffsets ==
    \A i \in 1 .. Len(calls) :
        calls[i].offset_rows = (i - 1) * limit /\ calls[i].limit_rows = limit

\* C6: for a source of N rows that honours offset_rows/limit_rows, a page
\* size L > 0 and max_iter > N div L, safe_query issues exactly N div L + 1
\* calls to query (pages of L, ..., L, N mod L rows), stops on the first
\* short or empty page without error, and returns the N rows in fetch order.
C6_PaginationFetchesAll ==
    (op = "safe_query" /\ ~endless /\ limit > 0
       /\ max_iter > SourceRows \div limit /\ outcome # "QueryError") =>
        /\ Len(calls) <= SourceRows \div limit + 1
        /\ CallsCarryOffsets
        /\ \A i \in 1 .. Len(dfs) :
             Len(dfs[i]) = (IF i <= SourceRows \div limit THEN limit
                            ELSE SourceRows % limit)
        /\ pc \in {"safe_return", "done"} =>
             Len(calls) = SourceRows \div limit + 1
        /\ pc = "done" =>
             /\ outcome = "DataFrame"
             /\ final_df = [i \in 1 .. SourceRows |-> i]

\* C6's case: 5 rows in pages of 2: three calls (2, 2, 1 rows), all 5 rows
\* returned, max_iter not reached.
C6_Witness ==
    /\ op = "safe_query"
    /\ ~endless
    /\ pc = "done"
    /\ limit = 2
    /\ SourceRows = 5
    /\ max_iter > 3
    /\ Len(calls) = 3
    /\ final_df = <<1, 2, 3, 4, 5>>

\* C7: on a source that answers every page with exactly `limit` rows,
\* safe_query ends after exactly max_iter calls to query, the i-th (0-based)
\* carrying offset_rows = i*limit and limit_rows = limit whatever the caller
\* supplied for those keys, and returns without error.
C7_StopsAtMaxIter ==
    (op = "safe_query" /\ endless /\ limit > 0 /\ outcome # "QueryError") =>
        /\ Len(calls) <= max_iter
        /\ CallsCarryOffsets
        /\ pc \in {"safe_return", "done"} => Len(calls) = max_iter
        /\ pc = "done" => outcome = "DataFrame"

\* C7's case: the caller's mapping held offset_rows = 9 and limit_rows = 9
\* (and its own key other = 8), and three calls were made.
C7_Witness ==
    /\ op = "safe_query"
    /\ endless
    /\ pc = "done"
    /\ max_iter = 3
    /\ Len(calls) = 3
    /\ calls[1].other = 8
    /\ Len(final_df) = 3 * limit

\* The pandas frequency code of a granularity name.
GranularityCode(name) ==
    CASE name = "day" -> "D"
      [] name = "week" -> "W"
      [] name = "month" -> "MS"
      [] name = "quarter" -> "QS"
      [] name = "year" -> "YS"
      [] OTHER -> "none"

\* The arguments meet the documented preconditions.
ValidPeriodArguments ==
    /\ op = "period_limited_query"
    /\ start_date # NoDate
    /\ end_date # NoDate
    /\ start_date <= end_date
    /\ interval.name \in IntervalNames
    /\ interval_multiple > 0

\* The method is past its loop over the sub-ranges, no call to query having
\* raised.
PeriodLoopOver ==
    pc \in {"period_return", "done"} /\ outcome # "QueryError"

\* The (start_date, end_date) pairs passed to query cover the range.
PairsCoverRange ==
    /\ calls # <<>>
    /\ calls[1].start_date = start_date
    /\ Last(calls).end_date = end_date
    /\ \A i \in 1 .. Len(calls) - 1 :
         /\ calls[i].end_date = calls[i + 1].start_date
         /\ calls[i].start_date < calls[i + 1].start_date

\* C8: for every start_date <= end_date, granularity and positive multiple,
\* the (start_date, end_date) pairs passed to query, in call order, cover the
\* range: the first starts at start_date, the last ends at end_date, each
\* pair's end is the next pair's start, and starts strictly increase.
C8_PairsCoverRange ==
    (ValidPeriodArguments /\ PeriodLoopOver) => PairsCoverRange

\* No calendar boundary of the granularity lies strictly inside the range.
NoInnerBoundary ==
    \A d \in Days :
        (start_date < d /\ d < end_date)
            => ~OnOffset(d, GranularityCode(interval.name))

\* C9: when no calendar boundary falls strictly inside the range, exactly
\* one sub-range is queried, with parameters [start_date, end_date]; start
\* or end lying on a boundary included.
C9_SingleSubRange ==
    (ValidPeriodArguments /\ NoInnerBoundary /\ PeriodLoopOver) =>
        /\ Len(calls) = 1
        /\ calls[1].start_date = start_date
        /\ calls[1].end_date = end_date

\* C10: called with non-empty start_date <= end_date, interval one of the
\* strings 'day', 'week', 'month', 'quarter', 'year' and a positive integer
\* multiple, the method does not fail before its first sub-range request:
\* it issues at least one call to query.
C10_StringIntervalReachesQuery ==
    (ValidPeriodArguments /\ interval.freq_code = "none" /\ pc = "done") =>
        /\ outcome \notin {"AssertionError", "ValueError", "AttributeError"}
        /\ calls # <<>>

(***************************************************************************)
(* What the sub-range computation does where it is reached, that is for an *)
(* interval argument that carries a freq_code.                             *)
(***************************************************************************)
\* The pairs cover the range.
PairsCoverRangeWithFreqCode ==
    (ValidPeriodArguments /\ HasFreqCode(interval) /\ PeriodLoopOver)
        => PairsCoverRange

\* A single sub-range when no boundary lies strictly inside the range.
SingleSubRangeWithFreqCode ==
    (ValidPeriodArguments /\ HasFreqCode(interval) /\ NoInnerBoundary
       /\ PeriodLoopOver) => Len(calls) = 1

\* The value that results from merging a file value with an explicit one,
\* the explicit one overriding.
Merged(file_value, explicit) ==
    IF explicit # "" THEN explicit ELSE file_value

\* The constructor has run on a credentials argument that could be read.
Constructed ==
    /\ op = "construct"
    /\ pc = "done"
    /\ outcome # "FileNotFoundError"

\* C11 as claimed: construction succeeds if and only if endpoint and api key
\* are both non-empty after merging the file's values with the explicit
\* ones, explicit values overriding; otherwise it fails with the
\* configuration error.
C11_SucceedsIffMergedComplete ==
    Constructed =>
        /\ outcome \in {"Redash", "ValueError"}
        /\ outcome = "Redash" <=>
             /\ ~Falsy(Merged(credentials.endpoint, arg_endpoint))
             /\ ~Falsy(Merged(credentials.apikey, arg_apikey))

\* C11, amended: construction succeeds if and only if endpoint and api key
\* are both non-empty in the one source the constructor reads: the file when
\* a credentials path is given (the explicit arguments are then ignored),
\* the explicit arguments otherwise; otherwise it fails with the
\* configuration error.
C11_SucceedsIffSourceComplete ==
    Constructed =>
        /\ outcome \in {"Redash", "ValueError"}
        /\ outcome = "Redash" <=>
             IF credentials.given
             THEN ~Falsy(credentials.endpoint) /\ ~Falsy(credentials.apikey)
             ELSE arg_endpoint # "" /\ arg_apikey # ""
        /\ outcome = "Redash" =>
             /\ endpoint = (IF credentials.given THEN credentials.endpoint
                            ELSE arg_endpoint)
             /\ apikey = (IF credentials.given THEN credentials.apikey
                          ELSE arg_apikey)

\* C11's case: the file holds the endpoint only and the api key is passed
\* explicitly; the constructor fails.
C11_Witness ==
    /\ Constructed
    /\ credentials.given
    /\ credentials.endpoint = "file_endpoint"
    /\ credentials.apikey = "None"
    /\ arg_apikey = "arg_apikey"
    /\ outcome = "ValueError"

\* C12: on every path by which query returns or raises after
\* progress.start() has been called (normal return, job-wait timeout, HTTP
\* timeout or transport error inside the poll loop), stop() has run and the
\* indicator's running flag is false once the wait is over, and so when the
\* call returns or raises.
C12_IndicatorStopped ==
    (op = "query" /\ progress.thread = "Thread" /\ pc \in {"fetch", "done"})
        => ~progress.running

\* C12's case: the wait was left by the job-wait timeout error.
C12_Witness ==
    /\ op = "query"
    /\ pc = "done"
    /\ outcome = "JobTimeout"
    /\ progress = [running |-> FALSE, thread |-> "Thread"]

\* C14: the job-wait timeout error is raised only while the job status is
\* non-terminal: never when the most recent job-status response reported
\* SUCCESS, FAILURE or CANCELLED.
C14_TimeoutOnlyWhileNonTerminal ==
    (op = "query" /\ outcome = "JobTimeout")
        => Last(JobGets).status \notin Terminal

\* C15: an HTTP call (submission POST, job-status GET, result-fetch GET)
\* that fails with a transport error or a request timeout ends the call with
\* that same error; the request is not issued again and no other request
\* follows it.
C15_TransportErrorPropagates ==
    op = "query" =>
        \A i \in 1 .. Len(http) :
            http[i].answer \in TransportFailures =>
                /\ i = Len(http)
                /\ pc = "done"
                /\ outcome = http[i].answer

\* C15's case: the second job-status GET failed with a transport error.
C15_Witness ==
    /\ op = "query"
    /\ pc = "done"
    /\ Len(JobGets) = 2
    /\ Last(http).ep = "jobs"
    /\ Last(http).answer = "RequestError"
    /\ outcome = "RequestError"

\* A response (the submission's, without `message`, or a job-status one)
\* carried a status value outside JobStatus.
SawUnknownStatus ==
    /\ op = "query"
    /\ \E i \in 1 .. Len(http) :
         /\ http[i].answer = "json"
         /\ ~http[i].message
         /\ http[i].ep \in {"queries", "jobs"}
         /\ http[i].status > CANCELLED

\* C16: a status value outside {PENDING, STARTED, SUCCESS, FAILURE,
\* CANCELLED} in the submission or a job-status response makes the call fail
\* with a protocol-violation error, and no result-fetch GET is issued.
\* (Stated for the runs in which the wait did not time out.)
C16_UnknownStatusRejected ==
    (SawUnknownStatus /\ outcome # "JobTimeout") =>
        /\ ResultGets = <<>>
        /\ pc = "done" => outcome = "ProtocolViolation"

\* C17: when polling ends on a job-status response reporting SUCCESS, the
\* result-fetch GET targets the result identifier that response carried.
C17_FetchUsesPolledResultId ==
    (PolledStatus(SUCCESS) /\ ResultGets # <<>>)
        => Last(ResultGets).id = w_job.query_result_id

\* C18: a job-status GET answered with HTTP 502 makes the call return an
\* empty dataframe, and no HTTP request follows it.
C18_Poll502ReturnsEmpty ==
    op = "query" =>
        \A i \in 1 .. Len(http) :
            (http[i].ep = "jobs" /\ http[i].answer = "502") =>
                /\ i = Len(http)
                /\ pc = "done" => (outcome = "DataFrame" /\ df_rows = 0)

\* C19: safe_query and period_limited_query leave the mapping object the
\* caller passed as it was: no step of either call changes it.
C19_CallerParamsUntouched ==
    [][caller_params' = caller_params]_vars

\* C13: of two query calls running concurrently on one instance, each
\* POSTs to its own request URI and each reads, at every self.res access,
\* the response to its own request of that step.
C13_OwnResponseOnly ==
    op = "concurrent_query" =>
        \A c \in Callers :
            /\ posted[c] \in {NoCaller, c}
            /\ parsed[c].want # "None" =>
                 (parsed[c].owner = c /\ parsed[c].ep = parsed[c].want)

\* C20: an animation thread whose join timed out in stop() is never in the
\* body of the _animate loop while a thread created after it is there too.
C20_OldThreadNotAlongsideNew ==
    op = "progress" =>
        \A t \in join_timed_out :
            animate[t] = "body" =>
                ~ \E u \in Threads : u > t /\ animate[u] = "body"

=============================================================================
